---- MODULE Spec2Model ----
(***************************************************************************)
(* A model of scripts/create-database.py: the set-up of the users table,   *)
(* the three lookups (print_secrets, safe_print_secrets,                   *)
(* patched_print_secrets), sanitize_sql and TStringCursor.better_execute.  *)
(*                                                                         *)
(* A text is a sequence of one-character strings, so that formatting a key *)
(* into a statement and the engine's reading of that statement are both    *)
(* computed character by character.  The engine behind Cursor.execute is   *)
(* modelled for the statements this script can hand it: its tokenizer, the *)
(* SELECT ... WHERE expr and INSERT ... VALUES statements, expressions     *)
(* over text and integer values with  OR, AND, =, ==, binary and unary -,  *)
(* bound parameters, and the check that one call carries one statement.    *)
(***************************************************************************)
EXTENDS Integers, Sequences, FiniteSets, TLC

(***************************************************************************)
(* Bounds.                                                                 *)
(***************************************************************************)
\* Longest enumerated key (and secret) over KeyChars.
MaxKeyLen == 3
\* Most interpolation slots of an enumerated template.
MaxSlots == 2

(***************************************************************************)
(* Characters.                                                             *)
(***************************************************************************)
LowerChars ==
  <<"a", "b", "c", "d", "e", "f", "g", "h", "i", "j", "k", "l", "m",
    "n", "o", "p", "q", "r", "s", "t", "u", "v", "w", "x", "y", "z">>

UpperChars ==
  <<"A", "B", "C", "D", "E", "F", "G", "H", "I", "J", "K", "L", "M",
    "N", "O", "P", "Q", "R", "S", "T", "U", "V", "W", "X", "Y", "Z">>

DigitChars == <<"0", "1", "2", "3", "4", "5", "6", "7", "8", "9">>

Range(f) == {f[i] : i \in DOMAIN f}

SpaceSet == {" ", "\t", "\n", "\r", "\f"}
DigitSet == Range(DigitChars)
IdStartSet == Range(LowerChars) \cup Range(UpperChars) \cup {"_"}
IdCharSet == IdStartSet \cup DigitSet

IsSpace(c) == c \in SpaceSet
IsDigit(c) == c \in DigitSet
IsIdStart(c) == c \in IdStartSet
IsIdChar(c) == c \in IdCharSet

\* The engine reads keywords and identifiers without regard to case.
ToUpper(c) ==
  IF c \in Range(LowerChars)
  THEN UpperChars[CHOOSE i \in DOMAIN LowerChars : LowerChars[i] = c]
  ELSE c

DigitValue(c) == (CHOOSE i \in DOMAIN DigitChars : DigitChars[i] = c) - 1

(***************************************************************************)
(* The engine's tokenizer.  A token is [t, v]; v is the text of a string   *)
(* literal, the value of an integer literal, the upper-cased word of an    *)
(* identifier or keyword, the ordinal of a ? parameter.                    *)
(***************************************************************************)
Token(t, v) == [t |-> t, v |-> v]

Min(S) == CHOOSE x \in S : \A y \in S : x <= y

\* The indices of S, a set of indices of a text of length n, in increasing
\* order.
Ascending(S, n) == SelectSeq([i \in 1..n |-> i], LAMBDA i : i \in S)

\* f, a function over 1..n, as the sequence of its values.
Table(f) == SubSeq(f, 1, Len(f))

\* The index after the longest run of characters of the set chars that
\* starts at index i.
RunEnd(s, i, chars) ==
  CHOOSE j \in i..(Len(s) + 1) :
    /\ \A k \in i..(j - 1) : s[k] \in chars
    /\ j > Len(s) \/ s[j] \notin chars

\* The index after a -- comment whose text starts at i: the index after its
\* newline, or the end.
CommentEnd(s, i) == Min({k + 1 : k \in {k \in i..Len(s) : s[k] = "\n"}} \cup {Len(s) + 1})

\* In a string literal whose text starts at index i, quotes are read in
\* pairs from the start of each run of quotes: '' is one quote character,
\* and a quote left over at the end of a run closes the literal.
QuoteRunStart(s, i, k) ==
  CHOOSE a \in i..k : (\A m \in a..k : s[m] = "'") /\ (a = i \/ s[a - 1] # "'")

IsPairSecond(s, i, k) == s[k] = "'" /\ (k - QuoteRunStart(s, i, k)) % 2 = 1

Closes(s, i, k) ==
  /\ s[k] = "'"
  /\ k = Len(s) \/ s[k + 1] # "'"
  /\ ~IsPairSecond(s, i, k)

StringEnd(s, i, ends) == IF ends = {} THEN 0 ELSE Min(ends) + 1

\* The index after the closing quote of a string literal whose opening
\* quote is before index i; 0 when it is never closed.
ScanString(s, i) == StringEnd(s, i, {k \in i..Len(s) : Closes(s, i, k)})

StringChars(s, kept) == Table([m \in DOMAIN kept |-> s[kept[m]]])

\* The text of the string literal whose quotes are at i - 1 and j.
StringValue(s, i, j) ==
  StringChars(s, Ascending({k \in i..(j - 1) : ~IsPairSecond(s, i, k)}, Len(s)))

DigitsEnd(s, i) == RunEnd(s, i, DigitSet)

WordEnd(s, i) == RunEnd(s, i, IdCharSet)

RECURSIVE DigitsToInt(_, _)
DigitsToInt(ds, acc) ==
  IF ds = <<>> THEN acc
  ELSE DigitsToInt(Tail(ds), 10 * acc + DigitValue(Head(ds)))

UpperWord(w) == Table([i \in DOMAIN w |-> ToUpper(w[i])])

Lexed(t, end) == [t |-> t, end |-> end]

StringLexeme(s, end) ==
  IF end = 0 THEN Lexed("ILLEGAL", Len(s) + 1) ELSE Lexed("STRING", end)

IntegerLexeme(s, j) ==
  IF j <= Len(s) /\ s[j] \in {".", "e", "E", "x", "X", "_"} THEN Lexed("UNMODELLED", j)
  ELSE IF j <= Len(s) /\ IsIdChar(s[j]) THEN Lexed("ILLEGAL", j)
  ELSE Lexed("INTEGER", j)

MinusLexeme(s, i) ==
  IF i < Len(s) /\ s[i + 1] = "-" THEN Lexed("SPACE", CommentEnd(s, i + 2))
  ELSE IF i < Len(s) /\ s[i + 1] = ">" THEN Lexed("UNMODELLED", i + 2)
  ELSE Lexed("MINUS", i + 1)

\* The lexeme that starts at index i: its kind and the index after it.
\* White space and comments are the lexeme SPACE, which is no token; a
\* character the model does not read gives UNMODELLED.
Lexeme(s, i) ==
  CASE IsSpace(s[i]) -> Lexed("SPACE", i + 1)
    [] s[i] = "-" -> MinusLexeme(s, i)
    [] s[i] = "=" -> Lexed("EQ", IF i < Len(s) /\ s[i + 1] = "=" THEN i + 2 ELSE i + 1)
    [] s[i] = "(" -> Lexed("LP", i + 1)
    [] s[i] = ")" -> Lexed("RP", i + 1)
    [] s[i] = "," -> Lexed("COMMA", i + 1)
    [] s[i] = ";" -> Lexed("SEMI", i + 1)
    [] s[i] = "'" -> StringLexeme(s, ScanString(s, i + 1))
    [] s[i] = "?" -> Lexed(IF i < Len(s) /\ IsDigit(s[i + 1]) THEN "UNMODELLED"
                           ELSE "VARIABLE", i + 1)
    [] IsDigit(s[i]) -> IntegerLexeme(s, DigitsEnd(s, i))
    [] IsIdStart(s[i]) -> Lexed("ID", WordEnd(s, i))
    [] OTHER -> Lexed("UNMODELLED", i + 1)

Lexemes(s) == Table([i \in 1..Len(s) |-> Lexeme(s, i)])

\* The indices reached from those of reached by following nxt, nxt[i] > i
\* being the index after the lexeme at i.  A round follows nxt once from all
\* that is reached and then doubles the step of nxt.
RECURSIVE Orbit(_, _, _)
Orbit(nxt, reached, rounds) ==
  IF rounds = 0 THEN reached
  ELSE Orbit(Table([i \in DOMAIN nxt |->
                      IF nxt[i] \in DOMAIN nxt THEN nxt[nxt[i]] ELSE nxt[i]]),
             reached \cup {nxt[p] : p \in reached \cap DOMAIN nxt},
             rounds \div 2)

\* The indices at which the lexemes of the text start, read from index 1.
Starts(lx) == Orbit(Table([i \in DOMAIN lx |-> lx[i].end]), {1}, Len(lx)) \cap DOMAIN lx

Stoppers == {"SEMI", "ILLEGAL", "UNMODELLED"}

\* The index of the lexeme that ends the first statement, if there is one.
StopIndex(lx, starts) ==
  Min({p \in starts : lx[p].t \in Stoppers} \cup {Len(lx) + 1})

\* The token of the lexeme at index p, used being the indices of the tokens
\* of the statement: a ? parameter has its ordinal among them.
TokenAt(s, lx, used, p) ==
  CASE lx[p].t = "STRING" -> Token("STRING", StringValue(s, p + 1, lx[p].end - 1))
    [] lx[p].t = "INTEGER" -> Token("INTEGER", DigitsToInt(SubSeq(s, p, lx[p].end - 1), 0))
    [] lx[p].t = "ID" -> Token("ID", UpperWord(SubSeq(s, p, lx[p].end - 1)))
    [] lx[p].t = "VARIABLE" ->
         Token("VARIABLE", Cardinality({q \in used : q <= p /\ lx[q].t = "VARIABLE"}))
    [] OTHER -> Token(lx[p].t, <<>>)

TokensAt(s, lx, used, at) == Table([m \in DOMAIN at |-> TokenAt(s, lx, used, at[m])])

TokensOf(s, lx, used) == TokensAt(s, lx, used, Ascending(used, Len(s)))

Scanned(s, lx, stop, toks) ==
  IF stop > Len(s) THEN [toks |-> toks, tail |-> <<>>]
  ELSE IF lx[stop].t = "SEMI" THEN [toks |-> toks, tail |-> SubSeq(s, stop + 1, Len(s))]
  ELSE [toks |-> Append(toks, Token(lx[stop].t, <<>>)), tail |-> <<>>]

ScanTo(s, lx, starts, stop) ==
  Scanned(s, lx, stop, TokensOf(s, lx, {p \in starts : p < stop /\ lx[p].t # "SPACE"}))

Scan(s, lx, starts) == ScanTo(s, lx, starts, StopIndex(lx, starts))

ScanLexemes(s, lx) == Scan(s, lx, Starts(lx))

\* The tokens of the first statement of s and the text after the semicolon
\* that ends it.  Tokenizing stops at an illegal token: the parser fails on
\* it.
Tokenize(s) == ScanLexemes(s, Lexemes(s))

StripTo(s, lx, starts) ==
  SubSeq(s, Min({p \in starts : lx[p].t # "SPACE"} \cup {Len(s) + 1}), Len(s))

StripLexemes(s, lx) == StripTo(s, lx, Starts(lx))

\* sqlite3's lstrip_sql: the text with leading white space and -- comments
\* removed; what is left, if anything, is a further statement.
LstripSql(s) == StripLexemes(s, Lexemes(s))

(***************************************************************************)
(* Words.  Those of UnmodelledWords and UnmodelledStatements are SQL the   *)
(* model does not read: a statement that needs them ends "Unmodelled",     *)
(* which no input of the model produces (see NothingUnmodelled).           *)
(***************************************************************************)
UnmodelledWords ==
  {<<"N", "O", "T">>,
   <<"N", "U", "L", "L">>,
   <<"I", "S">>,
   <<"I", "N">>,
   <<"L", "I", "K", "E">>,
   <<"G", "L", "O", "B">>,
   <<"B", "E", "T", "W", "E", "E", "N">>,
   <<"U", "N", "I", "O", "N">>,
   <<"O", "R", "D", "E", "R">>,
   <<"G", "R", "O", "U", "P">>,
   <<"L", "I", "M", "I", "T">>,
   <<"C", "O", "L", "L", "A", "T", "E">>,
   <<"C", "A", "S", "E">>,
   <<"C", "A", "S", "T">>,
   <<"E", "X", "I", "S", "T", "S">>,
   <<"T", "R", "U", "E">>,
   <<"F", "A", "L", "S", "E">>,
   <<"R", "O", "W", "I", "D">>,
   <<"O", "I", "D">>,
   <<"_", "R", "O", "W", "I", "D", "_">>,
   <<"I", "S", "N", "U", "L", "L">>,
   <<"N", "O", "T", "N", "U", "L", "L">>}

UnmodelledStatements ==
  {<<"D", "R", "O", "P">>,
   <<"C", "R", "E", "A", "T", "E">>,
   <<"U", "P", "D", "A", "T", "E">>,
   <<"D", "E", "L", "E", "T", "E">>,
   <<"R", "E", "P", "L", "A", "C", "E">>,
   <<"V", "A", "L", "U", "E", "S">>,
   <<"W", "I", "T", "H">>,
   <<"P", "R", "A", "G", "M", "A">>}

WordName == <<"N", "A", "M", "E">>
WordSecret == <<"S", "E", "C", "R", "E", "T">>
WordOr == <<"O", "R">>
WordAnd == <<"A", "N", "D">>

IsWord(tok, w) == tok.t = "ID" /\ tok.v = w

(***************************************************************************)
(* The engine's expression grammar, loosest binding first:                 *)
(*   OR;  AND;  = and ==;  binary -;  unary -;  a literal, a parameter or  *)
(* a column.  A parse is [st, e, rest]: st is "ok", "error" (the engine    *)
(* rejects the statement) or "unmodelled".                                 *)
(***************************************************************************)
Node(k, a, b) == [k |-> k, a |-> a, b |-> b]
Parsed(e, rest) == [st |-> "ok", e |-> e, rest |-> rest]
Failed(st) == [st |-> st, e |-> Node("lit", <<>>, <<>>), rest |-> <<>>]

IntVal(n) == [ty |-> "int", v |-> n]
TextVal(s) == [ty |-> "text", v |-> s]

ParsePrimary(ts) ==
  IF ts = <<>> THEN Failed("error")
  ELSE
    LET h == ts[1]
        rest == Tail(ts)
    IN
    CASE h.t = "STRING" -> Parsed(Node("lit", TextVal(h.v), <<>>), rest)
      [] h.t = "INTEGER" -> Parsed(Node("lit", IntVal(h.v), <<>>), rest)
      [] h.t = "VARIABLE" -> Parsed(Node("var", h.v, <<>>), rest)
      [] h.t = "ID" ->
           IF h.v \in UnmodelledWords \/ (rest # <<>> /\ rest[1].t = "LP")
           THEN Failed("unmodelled")
           ELSE IF h.v \in {WordName, WordSecret}
           THEN Parsed(Node("col", h.v, <<>>), rest)
           \* a reserved word, or a column the table does not have
           ELSE Failed("error")
      [] h.t \in {"UNMODELLED", "LP"} -> Failed("unmodelled")
      [] OTHER -> Failed("error")

\* A parse that went well, extended by the operand r parsed after an operator.
Combine(k, left, r) ==
  IF r.st = "ok" THEN Parsed(Node(k, left, r.e), r.rest) ELSE r

Negated(r) == IF r.st = "ok" THEN Parsed(Node("neg", r.e, <<>>), r.rest) ELSE r

NextIs(l, t) == l.st = "ok" /\ l.rest # <<>> /\ l.rest[1].t = t
NextIsWord(l, w) == l.st = "ok" /\ l.rest # <<>> /\ IsWord(l.rest[1], w)

RECURSIVE ParseUnary(_)
ParseUnary(ts) ==
  IF ts # <<>> /\ ts[1].t = "MINUS"
  THEN Negated(ParseUnary(Tail(ts)))
  ELSE ParsePrimary(ts)

\* l is the parse of the left operand; the operators of one level associate
\* to the left.
RECURSIVE SubTail(_)
SubTail(l) ==
  IF NextIs(l, "MINUS")
  THEN SubTail(Combine("sub", l.e, ParseUnary(Tail(l.rest))))
  ELSE l

ParseSub(ts) == SubTail(ParseUnary(ts))

RECURSIVE EqTail(_)
EqTail(l) ==
  IF NextIs(l, "EQ")
  THEN EqTail(Combine("eq", l.e, ParseSub(Tail(l.rest))))
  ELSE l

ParseEq(ts) == EqTail(ParseSub(ts))

RECURSIVE AndTail(_)
AndTail(l) ==
  IF NextIsWord(l, WordAnd)
  THEN AndTail(Combine("and", l.e, ParseEq(Tail(l.rest))))
  ELSE l

ParseAnd(ts) == AndTail(ParseEq(ts))

RECURSIVE OrTail(_)
OrTail(l) ==
  IF NextIsWord(l, WordOr)
  THEN OrTail(Combine("or", l.e, ParseAnd(Tail(l.rest))))
  ELSE l

\* An expression, and whatever tokens follow it.
ParseExpr(ts) == OrTail(ParseAnd(ts))

\* How a statement ends when the token after a complete expression is not
\* one the grammar allows there.
AfterExpr(ts) ==
  IF ts[1].t = "UNMODELLED" \/ (ts[1].t = "ID" /\ ts[1].v \in UnmodelledWords)
     \/ ts[1].t = "LP"
  THEN "unmodelled" ELSE "error"

(***************************************************************************)
(* Values.  A value is an integer or a text.  Arithmetic and truth read a  *)
(* text by its numeric prefix; a comparison with a column of the table     *)
(* (declared text) turns an integer on the other side into its text.       *)
(***************************************************************************)
RECURSIVE SkipSpaces(_)
SkipSpaces(s) == IF s # <<>> /\ IsSpace(Head(s)) THEN SkipSpaces(Tail(s)) ELSE s

RECURSIVE LeadingDigits(_, _)
LeadingDigits(s, acc) ==
  IF s # <<>> /\ IsDigit(Head(s))
  THEN LeadingDigits(Tail(s), 10 * acc + DigitValue(Head(s)))
  ELSE acc

TextToInt(s) ==
  LET t == SkipSpaces(s)
  IN IF t # <<>> /\ Head(t) = "-" THEN 0 - LeadingDigits(Tail(t), 0)
     ELSE IF t # <<>> /\ Head(t) = "+" THEN LeadingDigits(Tail(t), 0)
     ELSE LeadingDigits(t, 0)

ToInt(val) == IF val.ty = "int" THEN val.v ELSE TextToInt(val.v)

RECURSIVE NatToText(_)
NatToText(n) ==
  IF n < 10 THEN <<DigitChars[n + 1]>>
  ELSE Append(NatToText(n \div 10), DigitChars[(n % 10) + 1])

IntToText(n) == IF n < 0 THEN <<"-">> \o NatToText(0 - n) ELSE NatToText(n)

\* Text affinity: what a column declared text stores, and what a column of
\* the table is compared with.
TextAffinity(val) == IF val.ty = "int" THEN TextVal(IntToText(val.v)) ELSE val

BoolVal(b) == IntVal(IF b THEN 1 ELSE 0)

SameValue(x, y) == BoolVal(x.ty = y.ty /\ x.v = y.v)

Truth(val) == ToInt(val) # 0

\* x = y, where xcol and ycol tell which operand is a column of the table.
Compare(x, xcol, y, ycol) ==
  SameValue(IF ycol /\ ~xcol THEN TextAffinity(x) ELSE x,
            IF xcol /\ ~ycol THEN TextAffinity(y) ELSE y)

\* The value of expression e on a row (a record [name, secret], or <<>>
\* where there is no row) with the bound parameters args.
RECURSIVE Eval(_, _, _)
Eval(e, row, args) ==
  CASE e.k = "lit" -> e.a
    [] e.k = "var" -> TextVal(args[e.a])
    [] e.k = "col" -> TextVal(IF e.a = WordName THEN row.name ELSE row.secret)
    [] e.k = "neg" -> IntVal(0 - ToInt(Eval(e.a, row, args)))
    [] e.k = "sub" -> IntVal(ToInt(Eval(e.a, row, args)) - ToInt(Eval(e.b, row, args)))
    [] e.k = "eq" ->
         Compare(Eval(e.a, row, args), e.a.k = "col",
                 Eval(e.b, row, args), e.b.k = "col")
    [] e.k = "and" -> BoolVal(Truth(Eval(e.a, row, args)) /\ Truth(Eval(e.b, row, args)))
    [] e.k = "or" -> BoolVal(Truth(Eval(e.a, row, args)) \/ Truth(Eval(e.b, row, args)))

RECURSIVE UsesColumn(_)
UsesColumn(e) ==
  CASE e.k = "col" -> TRUE
    [] e.k \in {"lit", "var"} -> FALSE
    [] e.k = "neg" -> UsesColumn(e.a)
    [] OTHER -> UsesColumn(e.a) \/ UsesColumn(e.b)

(***************************************************************************)
(* Statements.  The store is [exists, rows]: whether the users table       *)
(* exists, and its rows [name, secret] in insertion order.                 *)
(***************************************************************************)
Id(w) == Token("ID", w)

\* SELECT secret FROM users WHERE
SelectHead ==
  <<Id(<<"S", "E", "L", "E", "C", "T">>), Id(WordSecret),
    Id(<<"F", "R", "O", "M">>), Id(<<"U", "S", "E", "R", "S">>),
    Id(<<"W", "H", "E", "R", "E">>)>>

\* INSERT INTO users(name, secret) VALUES
InsertHead ==
  <<Id(<<"I", "N", "S", "E", "R", "T">>), Id(<<"I", "N", "T", "O">>),
    Id(<<"U", "S", "E", "R", "S">>), Token("LP", <<>>), Id(WordName),
    Token("COMMA", <<>>), Id(WordSecret), Token("RP", <<>>),
    Id(<<"V", "A", "L", "U", "E", "S">>)>>

HasHead(ts, head) ==
  /\ Len(ts) >= Len(head)
  /\ \A i \in DOMAIN head : ts[i].t = head[i].t /\ (ts[i].t = "ID" => ts[i].v = head[i].v)
AfterHead(ts, head) == SubSeq(ts, Len(head) + 1, Len(ts))

RowFailed(st, acc) == [st |-> st, rows |-> acc]

\* The status of a parse that stops at the first token of ts, where the
\* grammar wanted the token t.
Wanted(ts, t) ==
  IF ts = <<>> THEN "error" ELSE IF ts[1].t = t THEN "ok" ELSE AfterExpr(ts)

\* The rows of a VALUES clause, each (expr, expr): the table has two
\* columns, and a value of an INSERT cannot name a column.  acc holds the
\* rows read so far; a and b are the parses of a row's two values.
RECURSIVE ParseRows(_, _), RowFirst(_, _), RowSecond(_, _, _), RowEnd(_, _)
ParseRows(ts, acc) ==
  IF Wanted(ts, "LP") # "ok" THEN RowFailed(Wanted(ts, "LP"), acc)
  ELSE RowFirst(ParseExpr(Tail(ts)), acc)

RowFirst(a, acc) ==
  IF a.st # "ok" THEN RowFailed(a.st, acc)
  ELSE IF Wanted(a.rest, "COMMA") # "ok" THEN RowFailed(Wanted(a.rest, "COMMA"), acc)
  ELSE RowSecond(a.e, ParseExpr(Tail(a.rest)), acc)

RowSecond(e1, b, acc) ==
  IF b.st # "ok" THEN RowFailed(b.st, acc)
  ELSE IF Wanted(b.rest, "RP") # "ok" THEN RowFailed(Wanted(b.rest, "RP"), acc)
  ELSE IF UsesColumn(e1) \/ UsesColumn(b.e) THEN RowFailed("error", acc)
  ELSE RowEnd(Tail(b.rest), Append(acc, <<e1, b.e>>))

RowEnd(more, got) ==
  IF more = <<>> THEN [st |-> "ok", rows |-> got]
  ELSE IF more[1].t = "COMMA" THEN ParseRows(Tail(more), got)
  ELSE RowFailed(AfterExpr(more), got)

CountParams(ts) == Cardinality({i \in DOMAIN ts : ts[i].t = "VARIABLE"})

\* A prepared statement.
Statement(st, kind, e, rows, nparams) ==
  [st |-> st, kind |-> kind, e |-> e, rows |-> rows, nparams |-> nparams]

NoExpr == Node("lit", <<>>, <<>>)

\* p is the parse of the WHERE expression of a SELECT.
PrepareSelect(p, tbl, nparams) ==
  IF p.st # "ok" THEN Statement(p.st, "select", NoExpr, <<>>, nparams)
  ELSE IF p.rest # <<>> THEN Statement(AfterExpr(p.rest), "select", NoExpr, <<>>, nparams)
  ELSE IF ~tbl.exists THEN Statement("error", "select", NoExpr, <<>>, nparams)
  ELSE Statement("ok", "select", p.e, <<>>, nparams)

\* r is the parse of the VALUES rows of an INSERT.
PrepareInsert(r, tbl, nparams) ==
  IF r.st = "ok" /\ ~tbl.exists THEN Statement("error", "insert", NoExpr, <<>>, nparams)
  ELSE Statement(r.st, "insert", NoExpr, r.rows, nparams)

\* sqlite3_prepare of the first statement, whose tokens are toks.
Prepare(toks, tbl) ==
  IF toks = <<>> THEN Statement("ok", "empty", NoExpr, <<>>, 0)
  ELSE IF HasHead(toks, SelectHead)
  THEN PrepareSelect(ParseExpr(AfterHead(toks, SelectHead)), tbl, CountParams(toks))
  ELSE IF HasHead(toks, InsertHead)
  THEN PrepareInsert(ParseRows(AfterHead(toks, InsertHead), <<>>), tbl, CountParams(toks))
  ELSE IF toks[1].t = "UNMODELLED"
          \/ (toks[1].t = "ID" /\ toks[1].v \in UnmodelledStatements)
          \/ IsWord(toks[1], SelectHead[1].v) \/ IsWord(toks[1], InsertHead[1].v)
  THEN Statement("unmodelled", "other", NoExpr, <<>>, 0)
  ELSE Statement("error", "other", NoExpr, <<>>, 0)

\* The rows a SELECT returns: the secret of every row the WHERE expression
\* holds on, in table order.
RECURSIVE SelectRows(_, _, _)
SelectRows(e, rows, args) ==
  IF rows = <<>> THEN <<>>
  ELSE LET rest == SelectRows(e, Tail(rows), args)
       IN IF Truth(Eval(e, Head(rows), args))
          THEN <<Head(rows).secret>> \o rest
          ELSE rest

\* The rows an INSERT adds: each value stored as text.
InsertedRows(exprs, args) ==
  [i \in DOMAIN exprs |->
     [name |-> TextAffinity(Eval(exprs[i][1], <<>>, args)).v,
      secret |-> TextAffinity(Eval(exprs[i][2], <<>>, args)).v]]

Outcome(status, rows, tbl) == [status |-> status, rows |-> rows, table |-> tbl]

\* The statement stmt, prepared from a text whose remainder is tail, run
\* with the arguments args.
RunStatement(stmt, tail, args, tbl) ==
  IF stmt.st = "unmodelled" THEN Outcome("Unmodelled", <<>>, tbl)
  ELSE IF stmt.st = "error" THEN Outcome("OperationalError", <<>>, tbl)
  ELSE IF LstripSql(tail) # <<>> THEN Outcome("ProgrammingError", <<>>, tbl)
  ELSE IF stmt.nparams # Len(args) THEN Outcome("ProgrammingError", <<>>, tbl)
  ELSE IF stmt.kind = "select"
  THEN Outcome("ok", SelectRows(stmt.e, tbl.rows, args), tbl)
  ELSE IF stmt.kind = "insert"
  THEN Outcome("ok", <<>>,
               [tbl EXCEPT !.rows = tbl.rows \o InsertedRows(stmt.rows, args)])
  ELSE Outcome("ok", <<>>, tbl)

ExecuteTokens(tk, args, tbl) == RunStatement(Prepare(tk.toks, tbl), tk.tail, args, tbl)

\* DROP TABLE users
DropHead ==
  <<Id(<<"D", "R", "O", "P">>), Id(<<"T", "A", "B", "L", "E">>),
    Id(<<"U", "S", "E", "R", "S">>)>>

\* A variant of CursorExecute in the manner of executescript: the first
\* statement runs whatever follows it, and a DROP TABLE users that follows
\* runs too.
ScriptTail(o, toks) ==
  IF o.status = "ok" /\ HasHead(toks, DropHead)
  THEN Outcome("ok", o.rows, [exists |-> FALSE, rows |-> <<>>])
  ELSE o

ScriptTokens(tk, args, tbl) ==
  ScriptTail(RunStatement(Prepare(tk.toks, tbl), <<>>, args, tbl), Tokenize(tk.tail).toks)

CursorExecuteScript(sql, args, tbl) == ScriptTokens(Tokenize(sql), args, tbl)

\* sqlite3.Cursor.execute(sql, args) on the store tbl: the first statement
\* is prepared; text after it that is more than white space and comments is
\* refused; the parameters must be as many as the arguments; then the
\* statement runs.  The outcome is the error raised or "ok", the rows
\* fetchall() then returns, and the store afterwards.
CursorExecute(sql, args, tbl) == ExecuteTokens(Tokenize(sql), args, tbl)

(***************************************************************************)
(* The script's texts.                                                     *)
(***************************************************************************)
\* "SELECT secret FROM users WHERE name = "
SelectPrefix ==
  <<"S", "E", "L", "E", "C", "T", " ", "s", "e", "c", "r", "e", "t", " ",
    "F", "R", "O", "M", " ", "u", "s", "e", "r", "s", " ",
    "W", "H", "E", "R", "E", " ", "n", "a", "m", "e", " ", "=", " ">>

\* "SELECT secret FROM users WHERE name = ?"
SafeQuery ==
  <<"S", "E", "L", "E", "C", "T", " ", "s", "e", "c", "r", "e", "t", " ",
    "F", "R", "O", "M", " ", "u", "s", "e", "r", "s", " ",
    "W", "H", "E", "R", "E", " ", "n", "a", "m", "e", " ", "=", " ", "?">>

\* "INSERT INTO users(name, secret) VALUES("
InsertPrefix ==
  <<"I", "N", "S", "E", "R", "T", " ", "I", "N", "T", "O", " ",
    "u", "s", "e", "r", "s", "(", "n", "a", "m", "e", ",", " ",
    "s", "e", "c", "r", "e", "t", ")", " ", "V", "A", "L", "U", "E", "S", "(">>

Alice == <<"A", "l", "i", "c", "e">>
Bob == <<"B", "o", "b">>
Carol == <<"C", "a", "r", "o", "l">>

\* "Alice secret info", "Bob secret info", "Carol secret info"
AliceSecret ==
  <<"A", "l", "i", "c", "e", " ", "s", "e", "c", "r", "e", "t", " ", "i", "n", "f", "o">>
BobSecret ==
  <<"B", "o", "b", " ", "s", "e", "c", "r", "e", "t", " ", "i", "n", "f", "o">>
CarolSecret ==
  <<"C", "a", "r", "o", "l", " ", "s", "e", "c", "r", "e", "t", " ", "i", "n", "f", "o">>

\* The dict data, in insertion order.
Data ==
  <<[name |-> Alice, secret |-> AliceSecret],
    [name |-> Bob, secret |-> BobSecret],
    [name |-> Carol, secret |-> CarolSecret]>>

RECURSIVE EscapeQuotes(_)
EscapeQuotes(t) ==
  IF t = <<>> THEN <<>>
  ELSE (IF Head(t) = "'" THEN <<"'", "'">> ELSE <<Head(t)>>) \o EscapeQuotes(Tail(t))

\* A variant of FormatSelect that doubles the quotes of the name.
FormatSelectEscaped(name) == SelectPrefix \o <<"'">> \o EscapeQuotes(name) \o <<"'">>

\* f"SELECT secret FROM users WHERE name = '{name}'"
FormatSelect(name) == SelectPrefix \o <<"'">> \o name \o <<"'">>

\* A variant of FormatInsert with the two values in the other order.
FormatInsertSwapped(name, secret) ==
  InsertPrefix \o <<"'">> \o secret \o <<"'", ",", " ", "'">> \o name \o <<"'", ")">>

\* f"INSERT INTO users(name, secret) VALUES('{name}', '{secret}')"
FormatInsert(name, secret) ==
  InsertPrefix \o <<"'">> \o name \o <<"'", ",", " ", "'">> \o secret \o <<"'", ")">>

(***************************************************************************)
(* string.templatelib.  A template is [type, strings, values] with one     *)
(* more string than values; an argument that is not a template (a plain    *)
(* string, a tuple, None) has another type.                                *)
(***************************************************************************)
Template(strings, values) ==
  [type |-> "Template", strings |-> strings, values |-> values]

PlainStr(text) == [type |-> "str", strings |-> <<text>>, values |-> <<>>]

\* Template.__iter__: the strings and the interpolations in order, the
\* empty strings left out.
RECURSIVE TemplateItems(_, _)
TemplateItems(t, i) ==
  LET s == IF t.strings[i] = <<>> THEN <<>>
           ELSE <<[kind |-> "str", v |-> t.strings[i]]>>
  IN IF i > Len(t.values) THEN s
     ELSE s \o <<[kind |-> "Interpolation", v |-> t.values[i]]>>
            \o TemplateItems(t, i + 1)

\* t"SELECT secret FROM users WHERE name = {name}"
PatchedTemplate(name) == Template(<<SelectPrefix, <<>>>>, <<name>>)

\* "".join(parts)
RECURSIVE Join(_)
Join(parts) == IF parts = <<>> THEN <<>> ELSE Head(parts) \o Join(Tail(parts))

\* A variant of the loop that writes each value into the query text.
RECURSIVE SanitizeItemsInline(_, _, _)
SanitizeItemsInline(items, parts, args) ==
  IF items = <<>> THEN [parts |-> parts, args |-> args]
  ELSE SanitizeItemsInline(Tail(items), Append(parts, Head(items).v), args)

\* A variant of the loop that puts each value before the earlier ones.
RECURSIVE SanitizeItemsArgsFirst(_, _, _)
SanitizeItemsArgsFirst(items, parts, args) ==
  IF items = <<>> THEN [parts |-> parts, args |-> args]
  ELSE IF Head(items).kind = "str"
       THEN SanitizeItemsArgsFirst(Tail(items), Append(parts, Head(items).v), args)
       ELSE SanitizeItemsArgsFirst(Tail(items), Append(parts, <<"?">>),
                                   <<Head(items).v>> \o args)

\* The loop of sanitize_sql over the items of the template.
RECURSIVE SanitizeItems(_, _, _)
SanitizeItems(items, parts, args) ==
  IF items = <<>> THEN [parts |-> parts, args |-> args]
  ELSE LET item == Head(items)
       IN IF item.kind = "str"
          THEN SanitizeItems(Tail(items), Append(parts, item.v), args)
          ELSE SanitizeItems(Tail(items), Append(parts, <<"?">>), Append(args, item.v))

\* query = "".join(parts); return query, tuple(args)
Sanitized(r) == [raised |-> FALSE, query |-> Join(r.parts), args |-> r.args]

\* A variant of sanitize_sql without the isinstance check: a plain string
\* is then taken for its own text.
SanitizeSqlUnchecked(template) ==
  IF template.type = "Template"
  THEN Sanitized(SanitizeItems(TemplateItems(template, 1), <<>>, <<>>))
  ELSE [raised |-> FALSE, query |-> Join(template.strings), args |-> <<>>]

\* sanitize_sql(template): raises TypeError for what is not a Template,
\* else returns the query and the tuple of arguments.
SanitizeSql(template) ==
  IF template.type # "Template"
  THEN [raised |-> TRUE, query |-> <<>>, args |-> <<>>]
  ELSE Sanitized(SanitizeItems(TemplateItems(template, 1), <<>>, <<>>))

(***************************************************************************)
(* What an operation leaves behind: [op, status, rows, executed, sql,      *)
(* args]: the error it raised or "ok", the rows it printed, whether        *)
(* Cursor.execute was called and with what.                                *)
(***************************************************************************)
Result(op, status, rows, executed, sql, args) ==
  [op |-> op, status |-> status, rows |-> rows, executed |-> executed,
   sql |-> sql, args |-> args]

NoResult == Result("none", "none", <<>>, FALSE, <<>>, <<>>)

NoArg == [type |-> "NoneType", strings |-> <<>>, values |-> <<>>]

\* for row in cur.fetchall(): print(*row), after cur.execute(sql, args)
\* ended with the outcome o.
Printed(op, o, sql, args) ==
  [res |-> Result(op, o.status, o.rows, TRUE, sql, args), table |-> o.table]

\* cur.execute(sql, args), then the printing of the rows.
ExecuteAndPrint(op, sql, args, tbl) ==
  Printed(op, CursorExecute(sql, args, tbl), sql, args)

\* self.execute(*s), s being what sanitize_sql returned or that it raised.
ExecuteSanitized(op, s, tbl) ==
  IF s.raised
  THEN [res |-> Result(op, "TypeError", <<>>, FALSE, <<>>, <<>>), table |-> tbl]
  ELSE ExecuteAndPrint(op, s.query, s.args, tbl)

\* TStringCursor.better_execute(template), then the printing of the rows.
BetterExecute(op, template, tbl) == ExecuteSanitized(op, SanitizeSql(template), tbl)

\* with sqlite3.connect(...) as conn: leaving the block commits or rolls
\* back and does not close.  The connection is closed when conn is
\* released: at once when the function returns, but not while an exception
\* that left the block is in flight, for its traceback holds the frame.
OpenAfter(conns, op, status) == IF status = "ok" THEN conns ELSE conns \cup {op}

(***************************************************************************)
(* Set-up (the module's first statements).                                 *)
(***************************************************************************)
\* A variant of the set-up without its DROP TABLE.
DropTableMissing(tbl) == tbl

\* cur.execute("DROP TABLE IF EXISTS users")
DropTableIfExists(tbl) == [exists |-> FALSE, rows |-> <<>>]

\* cur.execute(create_table)
CreateTableIfNotExists(tbl) ==
  IF tbl.exists THEN tbl ELSE [exists |-> TRUE, rows |-> <<>>]

\* for name, secret in data.items(): cur.execute(f"INSERT ..."); o is the
\* outcome of the INSERT of the first pair of a dict whose other pairs are
\* rest.  An INSERT that raises ends the loop.
RECURSIVE InsertAll(_, _), InsertRest(_, _, _)
InsertAll(d, tbl) ==
  IF d = <<>> THEN [status |-> "ok", table |-> tbl]
  ELSE InsertRest(CursorExecute(FormatInsert(Head(d).name, Head(d).secret), <<>>, tbl),
                  Tail(d), tbl)

InsertRest(o, rest, tbl) ==
  IF o.status = "ok" THEN InsertAll(rest, o.table)
  ELSE [status |-> o.status, table |-> tbl]

(***************************************************************************)
(* Inputs.                                                                 *)
(***************************************************************************)
KeyChars == {"'", "=", "-", "1", " ", ";"}

RECURSIVE Texts(_, _)
Texts(chars, n) ==
  IF n = 0 THEN {<<>>}
  ELSE LET shorter == Texts(chars, n - 1)
       IN shorter \cup {Append(t, c) : t \in shorter, c \in chars}

\* "Alice' OR 1=1; -- "
Payload ==
  <<"A", "l", "i", "c", "e", "'", " ", "O", "R", " ", "1", "=", "1", ";", " ", "-", "-", " ">>

\* "Alice'; DROP TABLE users; --"
DropPayload ==
  <<"A", "l", "i", "c", "e", "'", ";", " ", "D", "R", "O", "P", " ",
    "T", "A", "B", "L", "E", " ", "u", "s", "e", "r", "s", ";", " ", "-", "-">>

\* "alice", "Alice ", "Alic", "Bob' --", "' OR name = 'Bob", "'=-'", "?",
\* "O'Brien"
NamedKeys ==
  {Alice, Bob, Carol, Payload, DropPayload,
   <<"a", "l", "i", "c", "e">>,
   <<"A", "l", "i", "c", "e", " ">>,
   <<"A", "l", "i", "c">>,
   <<"B", "o", "b", "'", " ", "-", "-">>,
   <<"'", " ", "O", "R", " ", "n", "a", "m", "e", " ", "=", " ", "'", "B", "o", "b">>,
   <<"'", "=", "-", "'">>,
   <<"?">>,
   <<"O", "'", "B", "r", "i", "e", "n">>}

Keys == Texts(KeyChars, MaxKeyLen) \cup NamedKeys

(***************************************************************************)
(* The state.                                                              *)
(*   pc      "start" before the script runs, "running" once set-up is      *)
(*           done, "raised" when an exception is propagating (nothing      *)
(*           catches it: the run ends)                                     *)
(*   data    the dict the run inserts                                      *)
(*   table   the users table of data/test.db, which outlives the run       *)
(*   open    the operations whose connection is still open                 *)
(*   result  what the last operation left behind                           *)
(*   key     the key the run's lookups are called with                     *)
(*   arg     the argument the run hands to sanitize_sql / better_execute   *)
(***************************************************************************)
VARIABLES pc, data, table, open, result, key, arg

vars == <<pc, data, table, open, result, key, arg>>

Init ==
  /\ pc = "start"
  /\ data = <<>>
  /\ table = [exists |-> FALSE, rows |-> <<>>]
  /\ open = {}
  /\ result = NoResult
  /\ key = <<>>
  /\ arg = NoArg

\* Lines 16-21, in a run that inserts the dict d and whose later calls use
\* key k and argument a.  DROP and CREATE take effect at once; the INSERTs
\* share one transaction, committed when the with block is left and rolled
\* back when an INSERT raises.  conn is a module global: it stays open.
SetupEnds(created, ins) ==
  /\ table' = IF ins.status = "ok" THEN ins.table ELSE created
  /\ result' = Result("setup", ins.status, <<>>, TRUE, <<>>, <<>>)
  /\ pc' = IF ins.status = "ok" THEN "running" ELSE "raised"

SetupInserts(created, d) == SetupEnds(created, InsertAll(d, created))

Setup(d, k, a) ==
  /\ pc = "start"
  /\ SetupInserts(CreateTableIfNotExists(DropTableIfExists(table)), d)
  /\ open' = {"setup"}
  /\ data' = d
  /\ key' = k
  /\ arg' = a

\* An operation called while the script runs: it leaves r.res and the
\* store r.table, and an error it raises ends the run.
Finish(op, r) ==
  /\ result' = r.res
  /\ table' = r.table
  /\ pc' = IF r.res.status = "ok" THEN "running" ELSE "raised"
  /\ open' = OpenAfter(open, op, r.res.status)
  /\ UNCHANGED <<data, key, arg>>

\* print_secrets(key)
PrintSecrets ==
  /\ pc = "running"
  /\ Finish("print_secrets",
            ExecuteAndPrint("print_secrets", FormatSelect(key), <<>>, table))

\* A variant of safe_print_secrets that formats the key into the text.
SafePrintSecretsFormatted ==
  /\ pc = "running"
  /\ Finish("safe_print_secrets",
            ExecuteAndPrint("safe_print_secrets", FormatSelect(key), <<>>, table))

\* safe_print_secrets(key)
SafePrintSecrets ==
  /\ pc = "running"
  /\ Finish("safe_print_secrets",
            ExecuteAndPrint("safe_print_secrets", SafeQuery, <<key>>, table))

\* patched_print_secrets(key)
PatchedPrintSecrets ==
  /\ pc = "running"
  /\ Finish("patched_print_secrets",
            BetterExecute("patched_print_secrets", PatchedTemplate(key), table))

\* sanitize_sql(arg), called on its own.
Sanitizes(s) ==
  /\ result' = Result("sanitize_sql", IF s.raised THEN "TypeError" ELSE "ok",
                      <<>>, FALSE, s.query, s.args)
  /\ pc' = IF s.raised THEN "raised" ELSE "running"

SanitizeCall ==
  /\ pc = "running"
  /\ Sanitizes(SanitizeSql(arg))
  /\ UNCHANGED <<data, table, open, key, arg>>

\* The body of patched_print_secrets with arg in place of its template:
\* cur.better_execute(arg) on a TStringCursor of a fresh connection.
BetterExecuteCall ==
  /\ pc = "running"
  /\ Finish("better_execute", BetterExecute("better_execute", arg, table))

\* The run ends: the process's connections are closed with it.
Exit ==
  /\ pc \in {"running", "raised"}
  /\ pc' = "start"
  /\ open' = {}
  /\ result' = NoResult
  /\ data' = <<>>
  /\ key' = <<>>
  /\ arg' = NoArg
  /\ UNCHANGED table

\* The script with its dict, its lookups called with any key of Keys.
Next ==
  \/ \E k \in Keys : Setup(Data, k, NoArg)
  \/ PrintSecrets
  \/ SafePrintSecrets
  \/ PatchedPrintSecrets
  \/ Exit

Spec == Init /\ [][Next]_vars

(***************************************************************************)
(* The round trip of a record: the script with a dict of one pair, any     *)
(* secret, and the safe lookup of its name.                                *)
(***************************************************************************)
\* "Al"
RoundTripNames == {Alice, <<"A", "l">>}

\* "O'Brien", "it's", "plain"
NamedSecrets ==
  {AliceSecret,
   <<"O", "'", "B", "r", "i", "e", "n">>,
   <<"i", "t", "'", "s">>,
   <<"p", "l", "a", "i", "n">>}

RoundTripData ==
  {<<[name |-> n, secret |-> s]>> :
     n \in RoundTripNames, s \in Texts(KeyChars, MaxKeyLen) \cup NamedSecrets}

\* One run of the script.
NextRoundTrip ==
  \/ \E d \in RoundTripData : Setup(d, d[1].name, NoArg)
  \/ SafePrintSecrets

SpecRoundTrip == Init /\ [][NextRoundTrip]_vars

(***************************************************************************)
(* sanitize_sql and better_execute on any argument: the script set up, and *)
(* the two called with a template of up to MaxSlots interpolations or with *)
(* something that is not a template.                                       *)
(***************************************************************************)
\* " OR name = "
OrName == <<" ", "O", "R", " ", "n", "a", "m", "e", " ", "=", " ">>

\* A query without interpolation: "SELECT secret FROM users WHERE name = 'Bob'"
LiteralQuery == SelectPrefix \o <<"'", "B", "o", "b", "'">>

Pieces == {<<>>, SelectPrefix, OrName, LiteralQuery}

SlotValues == {Alice, Payload, <<"?">>}

Templates ==
  UNION {{Template(ss, vs) : ss \in [1..(n + 1) -> Pieces], vs \in [1..n -> SlotValues]} :
           n \in 0..MaxSlots}

NonTemplates ==
  {PlainStr(SafeQuery), PlainStr(FormatSelect(Alice)), PlainStr(FormatSelect(Payload)),
   PlainStr(<<>>), NoArg,
   [type |-> "tuple", strings |-> <<SafeQuery>>, values |-> <<Alice>>]}

NextSanitize ==
  \/ \E a \in Templates \cup NonTemplates : Setup(Data, <<>>, a)
  \/ SanitizeCall
  \/ BetterExecuteCall
  \/ Exit

SpecSanitize == Init /\ [][NextSanitize]_vars

(***************************************************************************)
(* Every statement the three specifications run is one the model reads.    *)
(***************************************************************************)
NothingUnmodelled == result.status # "Unmodelled"

(***************************************************************************)
(* Properties.                                                             *)
(***************************************************************************)
StoredNames(tbl) == {tbl.rows[i].name : i \in DOMAIN tbl.rows}

\* The secrets of the rows of tbl whose name is k, in table order.
RECURSIVE SecretsOf(_, _)
SecretsOf(rows, k) ==
  IF rows = <<>> THEN <<>>
  ELSE (IF Head(rows).name = k THEN <<Head(rows).secret>> ELSE <<>>)
       \o SecretsOf(Tail(rows), k)

Lookups == {"print_secrets", "safe_print_secrets", "patched_print_secrets"}

\* C1: the safe lookup of a key that is no stored name ends without error
\* and prints nothing, whatever characters the key holds.
C1_SafeLookupOfUnknownKeyIsEmpty ==
  (result.op = "safe_print_secrets" /\ key \notin StoredNames(table))
    => (result.status = "ok" /\ result.rows = <<>>)

C1_Witness ==
  /\ result.op = "safe_print_secrets"
  /\ key = Payload
  /\ table.rows = Data
  /\ result.rows = <<>>

\* C2: the safe lookup of Alice, Bob or Carol prints exactly one secret,
\* the one the set-up inserted under that name.
C2_SafeLookupOfStoredKey ==
  \A i \in DOMAIN Data :
    (result.op = "safe_print_secrets" /\ key = Data[i].name)
      => (result.status = "ok" /\ result.rows = <<Data[i].secret>>)

C2_Witness ==
  /\ result.op = "safe_print_secrets"
  /\ key = Bob
  /\ result.rows = <<BobSecret>>

\* C3: called with "Alice' OR 1=1; -- ", print_secrets prints all three
\* stored secrets and safe_print_secrets prints none.
C3_PayloadUnsafeAllSafeNone ==
  /\ (result.op = "print_secrets" /\ key = Payload)
       => (result.status = "ok" /\ result.rows = <<AliceSecret, BobSecret, CarolSecret>>)
  /\ (result.op = "safe_print_secrets" /\ key = Payload)
       => (result.status = "ok" /\ result.rows = <<>>)

C3_Witness ==
  /\ result.op = "print_secrets"
  /\ key = Payload
  /\ Len(result.rows) = 3

\* C4: for every key, patched_print_secrets executes the very text and the
\* very arguments safe_print_secrets executes ("... WHERE name = ?" with
\* (key,)), and both print the secrets stored under exactly that key.
C4_PatchedExecutesWhatSafeExecutes ==
  /\ result.op = "patched_print_secrets"
       => (result.executed /\ result.sql = SafeQuery /\ result.args = <<key>>)
  /\ result.op = "safe_print_secrets"
       => (result.executed /\ result.sql = SafeQuery /\ result.args = <<key>>)
  /\ result.op \in {"patched_print_secrets", "safe_print_secrets"}
       => (result.status = "ok" /\ result.rows = SecretsOf(table.rows, key))

C4_Witness ==
  /\ result.op = "patched_print_secrets"
  /\ key = Payload
  /\ result.sql = SafeQuery
  /\ result.args = <<Payload>>

\* C5: given anything that is not a template, sanitize_sql raises TypeError
\* and returns no query and no arguments, and better_execute executes
\* nothing.
C5_NonTemplateRaisesBeforeAnything ==
  (result.op \in {"sanitize_sql", "better_execute"} /\ arg.type # "Template")
    => /\ result.status = "TypeError"
       /\ ~result.executed
       /\ result.sql = <<>>
       /\ result.args = <<>>
       /\ pc = "raised"

C5_Witness ==
  /\ result.op = "better_execute"
  /\ arg = PlainStr(FormatSelect(Payload))
  /\ result.status = "TypeError"
  /\ table.rows = Data

\* C6: when a lookup has ended, by returning or by raising, the connection
\* it opened is closed.
C6_LookupLeavesNoConnectionOpen ==
  result.op \in Lookups => result.op \notin open

\* C7: a record (name, secret) inserted by the set-up is found again by the
\* safe lookup of name, which prints exactly secret, whatever text secret
\* is: the INSERT does not fail, and the lookup prints that one secret.
C7_RoundTrip ==
  /\ result.op = "setup" => result.status = "ok"
  /\ result.op = "safe_print_secrets" => result.rows = <<data[1].secret>>

\* C8: no step taken once the set-up is done (a lookup with any key, or the
\* end of the run) changes the rows of the store.
C8_LookupsLeaveStoreUnchanged == [][pc = "running" => table' = table]_vars

C8_Witness ==
  /\ result.op = "print_secrets"
  /\ key = DropPayload
  /\ table = [exists |-> TRUE, rows |-> Data]

\* C9: in every reachable state of the store no two rows have the same
\* name.
C9_NamesUnique ==
  \A i, j \in DOMAIN table.rows :
    table.rows[i].name = table.rows[j].name => i = j

C9_Witness ==
  /\ result.op \in Lookups
  /\ Len(table.rows) = 3

\* The literal segments joined by one "?" per interpolation.
RECURSIVE Placeheld(_)
Placeheld(strings) ==
  IF Len(strings) = 1 THEN strings[1]
  ELSE strings[1] \o <<"?">> \o Placeheld(Tail(strings))

IsInfix(v, text) ==
  \E i \in 0..(Len(text) - Len(v)) : SubSeq(text, i + 1, i + Len(v)) = v

SanitizedAsClaimed ==
  (result.op = "sanitize_sql" /\ arg.type = "Template")
    => /\ result.status = "ok"
       /\ result.sql = Placeheld(arg.strings)
       /\ result.args = arg.values
       /\ Len(result.args) = Len(arg.strings) - 1

\* C10 as amended: for every template, one with no interpolation included,
\* sanitize_sql returns the literal segments joined in order with one "?"
\* for each interpolation, and the values in order, as many as there are
\* interpolations; the text depends on the literal segments alone.
C10_SanitizeReplacesSlots == SanitizedAsClaimed

C10_Witness ==
  /\ result.op = "sanitize_sql"
  /\ arg = Template(<<SelectPrefix, OrName, <<>>>>, <<Payload, Alice>>)
  /\ result.args = <<Payload, Alice>>

\* C10 as stated: the above, and no interpolated value occurs in the text.
C10_NoValueInQueryText ==
  /\ SanitizedAsClaimed
  /\ (result.op = "sanitize_sql" /\ arg.type = "Template")
       => \A i \in DOMAIN arg.values : ~IsInfix(arg.values[i], result.sql)

====
